---------------------------- MODULE Spec2Model ----------------------------
(***************************************************************************)
(* Model of the document vectorization engine of MedBotAssist.BotOpenIA:   *)
(* VectorizationManager (app/services/vectorization_manager.py) and the    *)
(* BlobService it reads documents from (app/services/blob_service.py).     *)
(*                                                                         *)
(* A call of revectorize_all or vectorize_file is a coroutine: it runs     *)
(* without interruption between two awaits (asyncio, one thread), so each  *)
(* action below is the code from one await to the next.  The answers of    *)
(* the collaborators (blob storage, embedding service, ChromaDB calls that *)
(* may throw, the clock) are inputs drawn with \E.                         *)
(***************************************************************************)
EXTENDS Integers, Sequences, FiniteSets, TLC

(***************************************************************************)
(* Bounds of the model.                                                    *)
(***************************************************************************)
MaxDocs == 2
MaxWords == 2
MaxSize == 2
MaxTs == 2
MaxRuns == 1
MaxChunkSize == 5
MaxText == 10
MaxTop == 2
MaxRow == 2

(***************************************************************************)
(* Program constants.                                                      *)
(***************************************************************************)
CHUNK_SIZE == 200
CHUNK_OVERLAP == 120

\* chunk_size / chunk_overlap argument left at its default (None)
None == -1

(***************************************************************************)
(* Blob names, as the parts between the dots: "a.txt" is <<"a", "txt">>.   *)
(***************************************************************************)
AllNames == << <<"a", "txt">>, <<"b", "bin">>, <<"c", "pdf">>, <<"d">> >>

Names == { AllNames[i] : i \in 1..MaxDocs }

\* Content types, as the set of words a substring test can find in them.
ContentTypes == { {"application", "octet-stream"}, {"application", "pdf"} }

Min(a, b) == IF a < b THEN a ELSE b

(***************************************************************************)
(* Exceptions.  detail is the message, as a sequence of fragments.         *)
(***************************************************************************)
HTTPException(status_code, detail) ==
    [type |-> "HTTPException", status_code |-> status_code, detail |-> detail]

ValueError(msg) ==
    [type |-> "ValueError", status_code |-> "", detail |-> msg]

LibraryError(msg) ==
    [type |-> "Exception", status_code |-> "", detail |-> msg]

\* str(e): "<status_code>: <detail>" for an HTTPException, the message otherwise
Str(e) ==
    IF e.type = "HTTPException" THEN <<e.status_code>> \o e.detail ELSE e.detail

NoError == [type |-> "", status_code |-> "", detail |-> <<>>]

(***************************************************************************)
(* BlobService.download_blob: the storage answers with a status and, on    *)
(* 200, the bytes and the headers.  The bytes of a document are modelled   *)
(* by their length (0 or more), the text a reader finds in them (nwords    *)
(* words, numbered 1..nwords) and whether a PDF/DOCX/HTML parser chokes on *)
(* them.                                                                   *)
(***************************************************************************)
Contents ==
    [size : {0}, content_type : ContentTypes, nwords : {0}, corrupt : {FALSE}]
    \cup
    [size : {1}, content_type : ContentTypes, nwords : 0..MaxWords,
     corrupt : BOOLEAN]

NoFile ==
    [size |-> 0, content_type |-> {}, nwords |-> 0, corrupt |-> FALSE]

DownloadResponses ==
    [status : {"200"}, body : Contents]
    \cup [status : {"404", "timeout"}, body : {NoFile}]

download_blob(blob_name, resp) ==
    IF resp.status = "200"
    THEN [ok |-> TRUE, content |-> resp.body, error |-> NoError]
    ELSE IF resp.status = "timeout"
    THEN [ok |-> FALSE, content |-> NoFile,
          error |-> HTTPException("408", <<"Timeout while downloading file">>)]
    ELSE LET inner ==
                 IF resp.status = "404"
                 THEN HTTPException("404", <<"File not found in blob storage">>)
                 ELSE IF resp.status = "403"
                 THEN HTTPException("403", <<"Access denied to blob storage">>)
                 ELSE HTTPException("500", <<"Failed to download file">>)
         IN  [ok |-> FALSE, content |-> NoFile,
              error |-> HTTPException("500",
                            <<"Error downloading file">> \o Str(inner))]

(***************************************************************************)
(* VectorizationManager._extract_text_from_file.  A text is the sequence   *)
(* of its words.                                                           *)
(***************************************************************************)
Words(n) == [p \in 1..n |-> p]

file_extension(file_name) ==
    IF Len(file_name) > 1 THEN file_name[Len(file_name)] ELSE ""

\* which extractor the if/elif chain selects
Extractor(file_name, content_type) ==
    LET ext == file_extension(file_name)
    IN  IF ext = "pdf" \/ "pdf" \in content_type THEN "pdf"
        ELSE IF ext \in {"docx", "doc"} \/ "word" \in content_type THEN "docx"
        ELSE IF ext \in {"txt", "md", "csv"} \/ "text" \in content_type
        THEN "text"
        ELSE IF ext \in {"html", "htm"} \/ "html" \in content_type THEN "html"
        ELSE "unsupported"

\* what is raised inside the try block, before the function's own except
ExtractInner(file_content, file_name, content_type) ==
    LET which == Extractor(file_name, content_type)
    IN  IF which = "unsupported"
        THEN [ok |-> FALSE, text |-> <<>>,
              error |-> HTTPException("422",
                            <<"File type is not supported">>)]
        ELSE IF which = "text"
        THEN [ok |-> TRUE, text |-> Words(file_content.nwords),
              error |-> NoError]
        ELSE IF file_content.corrupt
        THEN [ok |-> FALSE, text |-> <<>>,
              error |-> HTTPException("422",
                            <<"Error extracting content", which>>)]
        ELSE [ok |-> TRUE, text |-> Words(file_content.nwords),
              error |-> NoError]

\* the function's "except Exception" wraps whatever the try block raised
ExtractWrap(inner) ==
    IF inner.ok THEN inner
    ELSE [inner EXCEPT !.error =
              HTTPException("422",
                  <<"Could not extract text from file">> \o Str(inner.error))]

_extract_text_from_file(file_content, file_name, content_type) ==
    ExtractWrap(ExtractInner(file_content, file_name, content_type))

(***************************************************************************)
(* VectorizationManager.__init__: "x or default" takes the default for     *)
(* None and for 0.                                                         *)
(***************************************************************************)
OrDefault(arg, default) == IF arg = None \/ arg = 0 THEN default ELSE arg

CtorArgs == {<<None, None>>} \cup { <<s, s - 1>> : s \in 2..MaxSize }

(***************************************************************************)
(* VectorizationManager._chunk_text.  range(0, n, step) raises ValueError  *)
(* for step = 0 and is empty for step < 0.                                 *)
(***************************************************************************)
\* mutant: the range ends one word early, range(0, len(words) - 1, step)
RangeStartsEarly(n, step) ==
    IF step > 0 /\ n > 1
    THEN [k \in 1..((n + step - 2) \div step) |-> (k - 1) * step]
    ELSE <<>>

RangeStarts(n, step) ==
    IF step > 0
    THEN [k \in 1..((n + step - 1) \div step) |-> (k - 1) * step]
    ELSE <<>>

\* mutant: the window starts one word late, words[i + 1:i + size]
SliceSkipsFirst(words, i, size) == SubSeq(words, i + 2, Min(Len(words), i + size))

Slice(words, i, size) == SubSeq(words, i + 1, Min(Len(words), i + size))

_chunk_text(text, size, overlap) ==
    LET step == size - overlap
        starts == RangeStarts(Len(text), step)
        windows == [k \in 1..Len(starts) |-> Slice(text, starts[k], size)]
        chunks == SelectSeq(windows, LAMBDA w : Len(w) > 0)
    IN  IF step = 0
        THEN [ok |-> FALSE, chunks |-> <<>>,
              error |-> ValueError(<<"range() arg 3 must not be zero">>)]
        ELSE IF Len(chunks) = 0 /\ Len(text) > 0
        THEN [ok |-> TRUE, chunks |-> <<text>>, error |-> NoError]
        ELSE [ok |-> TRUE, chunks |-> chunks, error |-> NoError]


(***************************************************************************)
(* VectorizationManager._generate_embeddings and the check that follows    *)
(* it in vectorize_file.  The service answers with an error or with n      *)
(* vectors of one length: that of settings.OPENAI_EMBEDDING_MODEL          *)
(* (text-embedding-3-small), or another when the model behind the name is  *)
(* another.                                                                *)
(***************************************************************************)
EMBEDDING_DIM == 1536

Dims == {EMBEDDING_DIM, 2 * EMBEDDING_DIM}

EmbedResponses(nchunks) ==
    [ok : {TRUE}, n : 0..(nchunks + 1), dim : Dims]
    \cup [ok : {FALSE}, n : {0}, dim : {EMBEDDING_DIM}]

_generate_embeddings(resp) ==
    IF resp.ok
    THEN [ok |-> TRUE, n |-> resp.n, dim |-> resp.dim, error |-> NoError]
    ELSE [ok |-> FALSE, n |-> 0, dim |-> resp.dim,
          error |-> HTTPException("500", <<"Error generating embeddings">>)]

\* mutant: only an empty answer is rejected, the lengths are not compared
EmbeddingsRejectedEmptyOnly(n, nchunks) == n = 0

\* "if not embeddings or len(embeddings) != len(chunks): raise ValueError"
EmbeddingsRejected(n, nchunks) == n = 0 \/ n # nchunks

(***************************************************************************)
(* The two ChromaDB collections.  A collection is keyed by id: add skips   *)
(* a record whose id the collection already holds.  Every call may throw.  *)
(* A collection has one dimensionality: add raises when a vector's length  *)
(* differs from that of the vectors the collection holds.                  *)
(***************************************************************************)
\* hash(chunk[:50]): the chunk's leading characters, here its first word
PrefixWords == 1

ChunkPrefix(chunk) == SubSeq(chunk, 1, Min(Len(chunk), PrefixWords))

\* hash() of a str is salted with a seed the interpreter draws when it starts
\* (PYTHONHASHSEED is not set): within one process equal strings have equal
\* hashes, and another process computes another function
Processes == {"this", "earlier"}

ThisProcess == "this"

hash(process, s) == <<process, s>>

chunk_id(blob_name, i, chunk, process) ==
    <<blob_name, i, hash(process, ChunkPrefix(chunk))>>

\* lines 385-403: one record per (chunk, embedding) pair, chunk_index from 0
ChunkRecords(blob_name, chunks, process, dim) ==
    { [id |-> chunk_id(blob_name, i - 1, chunks[i], process),
       document |-> chunks[i],
       dim |-> dim,
       filename |-> blob_name,
       chunk_index |-> i - 1,
       total_chunks |-> Len(chunks)] : i \in 1..Len(chunks) }

CollectionAdd(coll, records) ==
    coll \cup { r \in records : \A s \in coll : s.id # r.id }

\* mutant: the clear deletes nothing
ClearKeeps(coll, throws) == coll

\* revectorize_all, lines 514-529: get() all ids and delete() them, inside a
\* try whose except only logs
ClearCollection(coll, throws) == IF throws THEN coll ELSE {}

\* mutant: the collection takes vectors of any length
AddRejectsNever(coll, records) == FALSE

\* the collection's check of the length of the vectors of an add
AddRejects(coll, records) ==
    \E r \in records : \E s \in coll : r.dim # s.dim

\* vectorize_file, lines 405-430: add, count, verification query
StoreStage(coll, records, addThrows, countThrows) ==
    IF addThrows \/ AddRejects(coll, records)
    THEN [ok |-> FALSE, coll |-> coll,
          error |-> LibraryError(<<"collection.add failed">>)]
    ELSE IF countThrows
    THEN [ok |-> FALSE, coll |-> CollectionAdd(coll, records),
          error |-> LibraryError(<<"collection.count failed">>)]
    ELSE [ok |-> TRUE, coll |-> CollectionAdd(coll, records),
          error |-> NoError]

\* _log_vectorization: drop the old entries of the blob (errors ignored), add
\* the new entry under the id log_<blob>_<timestamp>; any error is only logged
LogRecord(blob_name, ts, chunks_processed) ==
    [id |-> <<blob_name, ts>>, blob_name |-> blob_name,
     chunks_processed |-> chunks_processed]

_log_vectorization(coll, blob_name, chunks_processed, ts, removeThrows, addThrows) ==
    LET kept == IF removeThrows THEN coll
                ELSE { e \in coll : e.blob_name # blob_name }
    IN  IF addThrows THEN kept
        ELSE CollectionAdd(kept, {LogRecord(blob_name, ts, chunks_processed)})

(***************************************************************************)
(* vectorize_file, lines 351-377: from the download to the chunks.         *)
(***************************************************************************)
Failed(stage, error) ==
    [ok |-> FALSE, stage |-> stage, error |-> error, content |-> NoFile,
     chunks |-> <<>>]

\* "if not file_content"
NoContent(content) == content.size = 0

Prepare(blob_name, resp, size, overlap) ==
    LET d == download_blob(blob_name, resp)
        x == _extract_text_from_file(d.content, blob_name, d.content.content_type)
        c == _chunk_text(x.text, size, overlap)
    IN  IF ~d.ok THEN Failed("fetch", d.error)
        ELSE IF NoContent(d.content)
        THEN Failed("fetch", ValueError(<<"No content retrieved for file">>))
        ELSE IF ~x.ok THEN Failed("extract", x.error)
        ELSE IF Len(x.text) = 0
        THEN Failed("extract",
                    ValueError(<<"No readable text content extracted">>))
        ELSE IF ~c.ok THEN Failed("chunk", c.error)
        ELSE IF Len(c.chunks) = 0
        THEN Failed("chunk", ValueError(<<"No chunks generated">>))
        ELSE [ok |-> TRUE, stage |-> "chunk", error |-> NoError,
              content |-> d.content, chunks |-> c.chunks]

\* vectorize_file, lines 449-454: every exception leaves as a 500
VectorizeRaise(cause) ==
    HTTPException("500", <<"Error vectorizing file">> \o Str(cause))

(***************************************************************************)
(* BlobService.list_blobs and _parse_blob_list_xml: the listing is the     *)
(* sequence of <Blob> elements; an element without a name is skipped.  A   *)
(* 200 answer that does not parse gives the empty list.                    *)
(***************************************************************************)
NoName == <<>>

ListingOf(S) == SelectSeq(SubSeq(AllNames, 1, MaxDocs), LAMBDA n : n \in S)

ListResponses ==
    [status : {"200"}, malformed : {FALSE},
     elements : { ListingOf(S) : S \in SUBSET Names }
                \cup { <<NoName>> \o ListingOf(S) : S \in SUBSET Names }]
    \cup [status : {"200"}, malformed : {TRUE}, elements : {<<>>}]
    \cup [status : {"403", "404", "500", "timeout"}, malformed : {FALSE},
          elements : {<<>>}]

_parse_blob_list_xml(elements) == SelectSeq(elements, LAMBDA n : n # NoName)

list_blobs(resp) ==
    IF resp.status = "200"
    THEN [ok |-> TRUE,
          blobs |-> IF resp.malformed THEN <<>>
                    ELSE _parse_blob_list_xml(resp.elements),
          error |-> NoError]
    ELSE [ok |-> FALSE, blobs |-> <<>>,
          error |->
              IF resp.status = "403"
              THEN HTTPException("403", <<"Access denied to blob storage">>)
              ELSE IF resp.status = "404"
              THEN HTTPException("404", <<"Container not found">>)
              ELSE IF resp.status = "timeout"
              THEN HTTPException("408",
                       <<"Timeout while accessing blob storage">>)
              ELSE HTTPException("500", <<"Failed to access blob storage">>)]

(***************************************************************************)
(* State.                                                                  *)
(*   chunk_size, chunk_overlap  the manager's configuration                *)
(*   store, log                 the collection and the log collection      *)
(*   pc[j], fr[j]               where call j stands and its local values   *)
(*   gh[j]                      what call j has done so far (history)      *)
(*   runs[j]                    how many calls have been made in slot j    *)
(*   ck                         the last _chunk_text call and its result   *)
(*   sr                         the InstructiveSearchTools object and its  *)
(*                              last call                                  *)
(***************************************************************************)
(***************************************************************************)
(* Where the collections live.  VectorizationManager.__init__ detects      *)
(* Azure App Service by WEBSITE_SITE_NAME and opens its client there with  *)
(* chromadb.Client(Settings(persist_directory=...)), which leaves          *)
(* is_persistent at False: an in-memory client.  Elsewhere it opens a      *)
(* PersistentClient at settings.VECTOR_DB_PATH.  Its collection is named   *)
(* by settings.DEFAULT_COLLECTION_NAME (no collection_name is passed).     *)
(* InstructiveSearchTools.__init__ always opens a PersistentClient at      *)
(* settings.VECTOR_DB_PATH and the collection "medical_documents".         *)
(***************************************************************************)
VECTOR_DB_PATH == "./chroma_db"

AZURE_DB_PATH == "/home/site/wwwroot/chroma_db"

CollectionNames == {"medical_documents", "instructives"}

Environments == [is_azure : BOOLEAN, DEFAULT_COLLECTION_NAME : CollectionNames]

\* no WEBSITE_SITE_NAME and no DEFAULT_COLLECTION_NAME in the environment
LocalDefault ==
    [is_azure |-> FALSE, DEFAULT_COLLECTION_NAME |-> "medical_documents"]

\* self.collection = None
NoCollection == [kind |-> "", path |-> "", name |-> ""]

CollectionOf(client, name) ==
    [kind |-> client.kind, path |-> client.path, name |-> name]

\* what the store library answers during a construction
InitAnswers ==
    [client_fails : BOOLEAN, get_fails : BOOLEAN, create_fails : BOOLEAN]

\* VectorizationManager.__init__, lines 70-117
ManagerClient(env) ==
    IF env.is_azure
    THEN [kind |-> "ephemeral", path |-> AZURE_DB_PATH]
    ELSE [kind |-> "persistent", path |-> VECTOR_DB_PATH]

\* _get_or_create_collection: an error of create_collection is not caught
_get_or_create_collection(client, name, a) ==
    IF a.get_fails /\ a.create_fails
    THEN [raised |-> TRUE, collection |-> NoCollection]
    ELSE [raised |-> FALSE, collection |-> CollectionOf(client, name)]

\* the manager before its construction, during start-up in environment env
NoManager(env) ==
    [built |-> FALSE, failed |-> FALSE, env |-> env, collection |-> NoCollection]

\* VectorizationManager.__init__: the object, or the exception raised
ManagerInit(env, a) ==
    LET c == _get_or_create_collection(ManagerClient(env),
                                       env.DEFAULT_COLLECTION_NAME, a)
    IN  IF a.client_fails \/ c.raised
        THEN [NoManager(env) EXCEPT !.failed = TRUE]
        ELSE [NoManager(env) EXCEPT !.built = TRUE, !.collection = c.collection]

\* InstructiveSearchTools.__init__, lines 27-46
ToolsClient == [kind |-> "persistent", path |-> VECTOR_DB_PATH]

\* InstructiveSearchTools.__init__, lines 48-60: both errors are caught
ToolsCollection(a) ==
    IF a.get_fails /\ a.create_fails
    THEN NoCollection
    ELSE CollectionOf(ToolsClient, "medical_documents")

(***************************************************************************)
(* PermissionContextService: the user context of the calling thread, a     *)
(* thread-local attribute that is absent or a UserContext.                 *)
(***************************************************************************)
Permissions == {"UseAgent", "ViewPatients"}

\* getattr(self._local, 'context', None) finds nothing
NoContext == [set |-> FALSE, permissions |-> {}]

UserContext(permissions) == [set |-> TRUE, permissions |-> permissions]

Contexts == {NoContext} \cup { UserContext(P) : P \in SUBSET Permissions }

\* mutant: a thread without a context has every permission
has_permissionByDefault(context, permission_name) ==
    ~context.set \/ permission_name \in context.permissions

has_permission(context, permission_name) ==
    context.set /\ permission_name \in context.permissions

\* the threads that serve requests
Threads == {1, 2}

\* a thread that has served nothing: no user context; no query has returned
\* on it; no tool has been called on it
NoThread ==
    [context |-> NoContext, returned |-> FALSE, out |-> "", during |-> "",
     tool |-> ""]

\* _format_search_results has not been called
NoFormat ==
    [called |-> FALSE,
     results |-> [documents |-> <<>>, metadatas |-> <<>>, distances |-> <<>>],
     formatted |-> <<>>]

VARIABLES chunk_size, chunk_overlap, store, log, pc, fr, gh, runs, ck, sr, vm, th, fm

vars ==
    <<chunk_size, chunk_overlap, store, log, pc, fr, gh, runs, ck, sr, vm, th,
      fm>>

Calls == {1, 2}

NoResult ==
    [status |-> "", files_processed |-> 0, files_failed |-> 0,
     total_chunks |-> 0, processed_files |-> <<>>, failed_files |-> <<>>,
     error |-> NoError]

NoOutcome ==
    [name |-> NoName, ok |-> FALSE, stage |-> "", error |-> NoError,
     cause |-> NoError, chunks_processed |-> 0, file_size |-> 0,
     nchunks |-> 0, nvec |-> 0, mismatch |-> FALSE]

Frame0 ==
    [mode |-> "", blobs |-> <<>>, k |-> 0, processed_files |-> <<>>,
     failed_files |-> <<>>, total_chunks |-> 0, file |-> NoFile,
     chunks |-> <<>>, result |-> NoResult]

\* no _chunk_text call has been made
NoChunking ==
    [size_arg |-> None, overlap_arg |-> None, text |-> <<>>, called |-> FALSE,
     ok |-> FALSE, chunks |-> <<>>]

\* the InstructiveSearchTools object has not been constructed
NoSearch == [built |-> FALSE]

Ghost0 ==
    [clear_failed |-> FALSE, log_clear_failed |-> FALSE,
     emptied |-> FALSE, log_emptied |-> FALSE,
     nadded |-> 0, attempted |-> <<>>, stages |-> <<>>, vf |-> NoOutcome,
     vfstages |-> <<>>, vftouched |-> FALSE, vfadded |-> 0]

(***************************************************************************)
(* The collections are persistent (chromadb.PersistentClient): a call      *)
(* finds what earlier ingestions left.  Here that is nothing, or the       *)
(* records and log entries of two documents ingested earlier with the      *)
(* same configuration: the first of the container, and one that has since  *)
(* been removed from it.  The earlier ingestions ran in this process or,   *)
(* before a restart, in an earlier one.                                    *)
(***************************************************************************)
Removed == AllNames[MaxDocs + 1]

EarlierRecords(size, overlap, process) ==
    UNION { ChunkRecords(d, _chunk_text(Words(MaxWords), size, overlap).chunks,
                         process, EMBEDDING_DIM)
            : d \in {AllNames[1], Removed} }

EarlierLog(size, overlap) ==
    { LogRecord(d, 1, Len(_chunk_text(Words(MaxWords), size, overlap).chunks))
      : d \in {AllNames[1], Removed} }

Init ==
    /\ \E a \in CtorArgs :
          /\ chunk_size = OrDefault(a[1], CHUNK_SIZE)
          /\ chunk_overlap = OrDefault(a[2], CHUNK_OVERLAP)
    /\ \/ store = {} /\ log = {}
       \/ /\ \E p \in Processes :
                store = EarlierRecords(chunk_size, chunk_overlap, p)
          /\ log = EarlierLog(chunk_size, chunk_overlap)
    /\ runs = [j \in Calls |-> 0]
    /\ ck = NoChunking
    /\ sr = NoSearch
    /\ vm \in { ManagerInit(LocalDefault, a) : a \in InitAnswers }
    /\ vm.built
    /\ th = [t \in Threads |-> NoThread]
    /\ fm = NoFormat
    /\ pc = [j \in Calls |-> "idle"]
    /\ fr = [j \in Calls |-> Frame0]
    /\ gh = [j \in Calls |-> Ghost0]

(***************************************************************************)
(* revectorize_all, lines 551-587: what the loop does with the outcome of  *)
(* one vectorize_file call, and where it goes next.                        *)
(***************************************************************************)
RECURSIVE NextNamed(_, _)
\* "if not blob_name: continue"
NextNamed(blobs, k) ==
    IF k > Len(blobs) THEN k
    ELSE IF blobs[k] = NoName THEN NextNamed(blobs, k + 1)
    ELSE k

Record(f, outcome) ==
    IF outcome.ok
    THEN [f EXCEPT !.processed_files =
                       Append(@, [name |-> outcome.name,
                                  chunks |-> outcome.chunks_processed,
                                  size |-> outcome.file_size]),
                   !.total_chunks = @ + outcome.chunks_processed]
    ELSE [f EXCEPT !.failed_files =
                       Append(@, [name |-> outcome.name,
                                  error |-> Str(outcome.error)])]

Report(f) ==
    [status |-> "completed",
     files_processed |-> Len(f.processed_files),
     files_failed |-> Len(f.failed_files),
     total_chunks |-> f.total_chunks,
     processed_files |-> f.processed_files,
     failed_files |-> f.failed_files,
     error |-> NoError]

\* the loop goes on with the first named blob from position k, or ends
Advance(g, k) ==
    LET k2 == NextNamed(g.blobs, k)
    IN  IF k2 > Len(g.blobs)
        THEN [pc |-> "done",
              fr |-> [g EXCEPT !.k = k2, !.file = NoFile, !.chunks = <<>>,
                               !.result = Report(g)]]
        ELSE [pc |-> "download",
              fr |-> [g EXCEPT !.k = k2, !.file = NoFile, !.chunks = <<>>]]

\* mutant: the first failure ends the loop
LoopStepStops(f, outcome) ==
    Advance(Record(f, outcome),
            IF outcome.ok THEN f.k + 1 ELSE Len(f.blobs) + 1)

\* the frame and the position after the outcome of the call for blobs[k]:
\* the except branch records the failure and the loop goes on
LoopStep(f, outcome) == Advance(Record(f, outcome), f.k + 1)

\* a direct call of vectorize_file returns its result or raises
SingleStep(f, outcome) ==
    [pc |-> "done",
     fr |-> [f EXCEPT !.file = NoFile, !.chunks = <<>>,
                      !.result =
                          [NoResult EXCEPT
                              !.status = IF outcome.ok THEN "vectorized"
                                         ELSE "raised",
                              !.total_chunks = outcome.chunks_processed,
                              !.error = outcome.error]]]

AfterFile(f, outcome) ==
    IF f.mode = "bulk" THEN LoopStep(f, outcome) ELSE SingleStep(f, outcome)

(***************************************************************************)
(* vectorize_file, lines 379-447: from the embeddings to the log entry.    *)
(* sx holds what the ChromaDB calls and the clock do.  The verification    *)
(* query of lines 418-430 changes nothing and its errors are only logged.  *)
(***************************************************************************)
\* A call that is not reached, because an earlier one threw, is listed as
\* not throwing, and the clock matters only when the log entry is added.
StoreInputs(throws) ==
    { sx \in [addThrows : throws, countThrows : throws, ts : 1..MaxTs,
              removeThrows : throws, logAddThrows : throws] :
        /\ sx.addThrows => ~sx.countThrows
        /\ (sx.addThrows \/ sx.countThrows)
               => (~sx.removeThrows /\ ~sx.logAddThrows)
        /\ (sx.addThrows \/ sx.countThrows \/ sx.logAddThrows) => sx.ts = 1 }

Calm == [addThrows |-> FALSE, countThrows |-> FALSE, ts |-> 1,
         removeThrows |-> FALSE, logAddThrows |-> FALSE]

\* mutant: the records are added before the embeddings are checked
FinishStoresFirst(coll, lg, blob_name, chunks, er, sx) ==
    LET e == _generate_embeddings(er)
        s == StoreStage(coll,
                        ChunkRecords(blob_name, chunks, ThisProcess, e.dim),
                        sx.addThrows, sx.countThrows)
    IN  IF ~e.ok
        THEN [ok |-> FALSE, stage |-> "embed", cause |-> e.error,
              store |-> coll, log |-> lg]
        ELSE IF ~s.ok
        THEN [ok |-> FALSE, stage |-> "store", cause |-> s.error,
              store |-> s.coll, log |-> lg]
        ELSE IF EmbeddingsRejected(e.n, Len(chunks))
        THEN [ok |-> FALSE, stage |-> "embed",
              cause |-> ValueError(<<"Embedding generation failed">>),
              store |-> s.coll, log |-> lg]
        ELSE [ok |-> TRUE, stage |-> "log", cause |-> NoError,
              store |-> s.coll,
              log |-> _log_vectorization(lg, blob_name, Len(chunks), sx.ts,
                                         sx.removeThrows, sx.logAddThrows)]

Finish(coll, lg, blob_name, chunks, er, sx) ==
    LET e == _generate_embeddings(er)
        s == StoreStage(coll,
                        ChunkRecords(blob_name, chunks, ThisProcess, e.dim),
                        sx.addThrows, sx.countThrows)
    IN  IF ~e.ok
        THEN [ok |-> FALSE, stage |-> "embed", cause |-> e.error,
              store |-> coll, log |-> lg]
        ELSE IF EmbeddingsRejected(e.n, Len(chunks))
        THEN [ok |-> FALSE, stage |-> "embed",
              cause |-> ValueError(<<"Embedding generation failed">>),
              store |-> coll, log |-> lg]
        ELSE IF ~s.ok
        THEN [ok |-> FALSE, stage |-> "store", cause |-> s.error,
              store |-> s.coll, log |-> lg]
        ELSE [ok |-> TRUE, stage |-> "log", cause |-> NoError,
              store |-> s.coll,
              log |-> _log_vectorization(lg, blob_name, Len(chunks), sx.ts,
                                         sx.removeThrows, sx.logAddThrows)]

(***************************************************************************)
(* History of a call.                                                      *)
(***************************************************************************)
StageOrder == <<"fetch", "extract", "chunk", "embed", "store", "log">>

StageIndex(stage) == CHOOSE i \in 1..Len(StageOrder) : StageOrder[i] = stage

\* the stages from one stage through another
StagesFrom(first, last) ==
    SubSeq(StageOrder, StageIndex(first), StageIndex(last))

\* a vectorize_file call ended with outcome, having run stages ran, put
\* ninserted records into the collection and changed (touched) the
\* collections or not
Ended(g, outcome, ran, ninserted, touched) ==
    [g EXCEPT !.stages = <<>>, !.vfstages = g.stages \o ran, !.vf = outcome,
              !.nadded = @ + ninserted, !.vftouched = touched,
              !.vfadded = ninserted]

\* the next vectorize_file call, if there is one, begins
Begun(g, nxt) ==
    IF nxt.pc = "download"
    THEN [g EXCEPT !.attempted = Append(@, nxt.fr.blobs[nxt.fr.k]),
                   !.stages = <<>>]
    ELSE g

(***************************************************************************)
(* What the collaborators may answer.  AnyAnswer is everything they can    *)
(* do; with FairWeather every call of a collaborator succeeds and every    *)
(* document is a readable text of MaxWords words.                          *)
(***************************************************************************)
AnyAnswer ==
    [throws |-> BOOLEAN,
     listings |-> ListResponses,
     downloads |-> DownloadResponses,
     embeddings |-> [n \in 1..MaxWords |-> EmbedResponses(n)]]

FairWeather ==
    [throws |-> {FALSE},
     listings |-> { r \in ListResponses :
                       /\ r.status = "200" /\ ~r.malformed
                       /\ \A i \in 1..Len(r.elements) :
                              r.elements[i] # NoName },
     downloads |-> { r \in DownloadResponses :
                        /\ r.status = "200"
                        /\ r.body.size > 0 /\ r.body.nwords = MaxWords
                        /\ ~r.body.corrupt
                        /\ "pdf" \in r.body.content_type },
     embeddings |-> [n \in 1..MaxWords |->
                        {[ok |-> TRUE, n |-> n, dim |-> EMBEDDING_DIM]}]]

(***************************************************************************)
(* Actions.  E is what the collaborators may answer.                       *)
(***************************************************************************)
\* revectorize_all, lines 507-533: clear both collections, ask for the listing
revectorize_all(j, E) ==
    /\ pc[j] = "idle"
    /\ runs[j] < MaxRuns
    /\ runs' = [runs EXCEPT ![j] = @ + 1]
    /\ \E vthrows \in E.throws, lthrows \in E.throws :
          /\ store' = ClearCollection(store, vthrows)
          /\ log' = ClearCollection(log, lthrows)
          /\ gh' = [gh EXCEPT ![j] =
                        [Ghost0 EXCEPT !.clear_failed = vthrows,
                                       !.log_clear_failed = lthrows,
                                       !.emptied = (store' # store),
                                       !.log_emptied = (log' # log)]]
    /\ pc' = [pc EXCEPT ![j] = "listing"]
    /\ fr' = [fr EXCEPT ![j] = [Frame0 EXCEPT !.mode = "bulk"]]
    /\ UNCHANGED <<vm, th, fm>>
    /\ UNCHANGED <<chunk_size, chunk_overlap, ck, sr>>

\* a direct call of vectorize_file, lines 351-355: ask for the blob
vectorize_file(j) ==
    /\ pc[j] = "idle"
    /\ runs[j] < MaxRuns
    /\ runs' = [runs EXCEPT ![j] = @ + 1]
    /\ \E blob_name \in Names :
          LET nxt == [pc |-> "download",
                      fr |-> [Frame0 EXCEPT !.mode = "single",
                                            !.blobs = <<blob_name>>,
                                            !.k = 1]]
          IN  /\ pc' = [pc EXCEPT ![j] = nxt.pc]
              /\ fr' = [fr EXCEPT ![j] = nxt.fr]
              /\ gh' = [gh EXCEPT ![j] = Begun(Ghost0, nxt)]
    /\ UNCHANGED <<vm, th, fm>>
    /\ UNCHANGED <<chunk_size, chunk_overlap, store, log, ck, sr>>

\* revectorize_all, lines 533-559: the listing arrives
ListReturns(j, E) ==
    /\ pc[j] = "listing"
    /\ \E resp \in E.listings :
          LET r == list_blobs(resp)
              f == fr[j]
              nxt == IF ~r.ok
                     THEN [pc |-> "done",
                           fr |-> [f EXCEPT !.result =
                               [NoResult EXCEPT
                                   !.status = "raised",
                                   !.error = HTTPException("500",
                                       <<"Error during revectorization">>
                                       \o Str(r.error))]]]
                     ELSE IF Len(r.blobs) = 0
                     THEN [pc |-> "done",
                           fr |-> [f EXCEPT !.result =
                               [NoResult EXCEPT !.status = "success"]]]
                     ELSE Advance([f EXCEPT !.blobs = r.blobs], 1)
          IN  /\ pc' = [pc EXCEPT ![j] = nxt.pc]
              /\ fr' = [fr EXCEPT ![j] = nxt.fr]
              /\ gh' = [gh EXCEPT ![j] = Begun(@, nxt)]
    /\ UNCHANGED <<vm, th, fm>>
    /\ UNCHANGED <<chunk_size, chunk_overlap, store, log, runs, ck, sr>>

\* vectorize_file, lines 355-380: the download arrives; extract and chunk
DownloadReturns(j, E) ==
    /\ pc[j] = "download"
    /\ \E resp \in E.downloads :
          LET f == fr[j]
              blob_name == f.blobs[f.k]
              p == Prepare(blob_name, resp, chunk_size, chunk_overlap)
              ran == StagesFrom("fetch", p.stage)
              outcome == [name |-> blob_name, ok |-> FALSE,
                          stage |-> p.stage,
                          error |-> VectorizeRaise(p.error),
                          cause |-> p.error, chunks_processed |-> 0,
                          file_size |-> 0, nchunks |-> 0, nvec |-> 0,
                          mismatch |-> FALSE]
              nxt == IF p.ok
                     THEN [pc |-> "embed",
                           fr |-> [f EXCEPT !.file = p.content,
                                            !.chunks = p.chunks]]
                     ELSE AfterFile(f, outcome)
          IN  /\ UNCHANGED <<store, log>>
              /\ pc' = [pc EXCEPT ![j] = nxt.pc]
              /\ fr' = [fr EXCEPT ![j] = nxt.fr]
              /\ gh' = [gh EXCEPT ![j] =
                            IF p.ok THEN [@ EXCEPT !.stages = ran]
                            ELSE Begun(Ended(@, outcome, ran,
                                             Cardinality(store' \ store),
                                             store' # store \/ log' # log),
                                       nxt)]
    /\ UNCHANGED <<vm, th, fm>>
    /\ UNCHANGED <<chunk_size, chunk_overlap, runs, ck, sr>>

\* the vectors of an answer differ in length from vectors the collection
\* holds
DimMismatch(coll, dim) == \E s \in coll : s.dim # dim

\* vectorize_file, lines 380-454: the embeddings arrive; store and log
EmbedReturns(j, E) ==
    /\ pc[j] = "embed"
    /\ \E er \in E.embeddings[Len(fr[j].chunks)],
          sx \in StoreInputs(E.throws) :
          LET f == fr[j]
              blob_name == f.blobs[f.k]
              r == Finish(store, log, blob_name, f.chunks, er, sx)
              outcome == [name |-> blob_name, ok |-> r.ok,
                          stage |-> r.stage,
                          error |-> IF r.ok THEN NoError
                                    ELSE VectorizeRaise(r.cause),
                          cause |-> r.cause,
                          chunks_processed |->
                              IF r.ok THEN Len(f.chunks) ELSE 0,
                          file_size |-> IF r.ok THEN f.file.size ELSE 0,
                          nchunks |-> Len(f.chunks), nvec |-> er.n,
                          mismatch |-> er.ok /\ DimMismatch(store, er.dim)]
              nxt == AfterFile(f, outcome)
          IN  /\ ~er.ok => sx = Calm
              /\ store' = r.store
              /\ log' = r.log
              /\ pc' = [pc EXCEPT ![j] = nxt.pc]
              /\ fr' = [fr EXCEPT ![j] = nxt.fr]
              /\ gh' = [gh EXCEPT ![j] =
                            Begun(Ended(@, outcome,
                                        StagesFrom("embed", r.stage),
                                        Cardinality(store' \ store),
                                        store' # store \/ log' # log),
                                  nxt)]
    /\ UNCHANGED <<vm, th, fm>>
    /\ UNCHANGED <<chunk_size, chunk_overlap, runs, ck, sr>>

\* the caller has the result (or the exception); the call is over
Return(j) ==
    /\ pc[j] = "done"
    /\ pc' = [pc EXCEPT ![j] = "idle"]
    /\ fr' = [fr EXCEPT ![j] = Frame0]
    /\ gh' = [gh EXCEPT ![j] = Ghost0]
    /\ UNCHANGED <<vm, th, fm>>
    /\ UNCHANGED <<chunk_size, chunk_overlap, store, log, runs, ck, sr>>

\* one call at a time
Next ==
    \E j \in {1} :
        \/ revectorize_all(j, AnyAnswer)
        \/ vectorize_file(j)
        \/ ListReturns(j, AnyAnswer)
        \/ DownloadReturns(j, AnyAnswer)
        \/ EmbedReturns(j, AnyAnswer)
        \/ Return(j)

Spec == Init /\ [][Next]_vars

\* two calls in flight on the same manager, interleaving at their awaits
NextConc ==
    \E j \in Calls :
        \/ revectorize_all(j, FairWeather)
        \/ vectorize_file(j)
        \/ ListReturns(j, FairWeather)
        \/ DownloadReturns(j, FairWeather)
        \/ EmbedReturns(j, FairWeather)
        \/ Return(j)

SpecConc == Init /\ [][NextConc]_vars

(***************************************************************************)
(* _chunk_text on its own: a manager of any configuration chunks a text    *)
(* of up to MaxText distinct words.                                        *)
(***************************************************************************)
ChunkCtorArgs ==
    ({None} \cup (0..MaxChunkSize)) \X ({None} \cup (0..MaxChunkSize))

InitChunk ==
    /\ \E a \in ChunkCtorArgs :
          /\ chunk_size = OrDefault(a[1], CHUNK_SIZE)
          /\ chunk_overlap = OrDefault(a[2], CHUNK_OVERLAP)
          /\ ck = [NoChunking EXCEPT !.size_arg = a[1], !.overlap_arg = a[2]]
    /\ store = {} /\ log = {}
    /\ runs = [j \in Calls |-> 0]
    /\ sr = NoSearch
    /\ vm \in { ManagerInit(LocalDefault, a) : a \in InitAnswers }
    /\ vm.built
    /\ th = [t \in Threads |-> NoThread]
    /\ fm = NoFormat
    /\ pc = [j \in Calls |-> "idle"]
    /\ fr = [j \in Calls |-> Frame0]
    /\ gh = [j \in Calls |-> Ghost0]

\* chunks = self._chunk_text(text_content)
ChunkText ==
    /\ \E n \in 0..MaxText :
          LET c == _chunk_text(Words(n), chunk_size, chunk_overlap)
          IN  ck' = [ck EXCEPT !.text = Words(n), !.called = TRUE,
                                !.ok = c.ok, !.chunks = c.chunks]
    /\ UNCHANGED <<vm, th, fm>>
    /\ UNCHANGED <<chunk_size, chunk_overlap, store, log, pc, fr, gh, runs,
                   sr>>

NextChunk == ChunkText

SpecChunk == InitChunk /\ [][NextChunk]_vars

(***************************************************************************)
(* InstructiveSearchTools (app/agents/tools/instructive_search_tools.py).  *)
(* Distances and similarities are counted in ten-thousandths: One is 1.0.  *)
(***************************************************************************)
One == 10000

\* round(x, 3): a thousandth is Thousandth ten-thousandths; halves go to
\* the even neighbour
Thousandth == 10

Round3(x) ==
    LET q == x \div Thousandth
        r == x % Thousandth
    IN  IF 2 * r < Thousandth THEN q * Thousandth
        ELSE IF 2 * r > Thousandth THEN (q + 1) * Thousandth
        ELSE IF q % 2 = 0 THEN q * Thousandth
        ELSE (q + 1) * Thousandth

\* defaults of the arguments and the n_results the methods ask for
DEFAULT_MAX_RESULTS == 5
DEFAULT_MIN_SIMILARITY == 2000
FILENAME_N_RESULTS == 20
AVAILABLE_N_RESULTS == 100

\* the distances the store may report: 0, 0.1004, 0.15 and 1.5
Distances == {0, 1004, 1500, 15000}

\* the min_similarity arguments: the default 0.2, and 0.9
MinSimilarities == {DEFAULT_MIN_SIMILARITY, 9000}

MaxResultsArgs == 0..MaxTop \cup {DEFAULT_MAX_RESULTS}

(***************************************************************************)
(* collection.query: the store ranks its records by their distance to the  *)
(* query vector and returns the n_results nearest, nearest first.  A       *)
(* ranking is what the store makes of one query: every record once, with   *)
(* its distance, in ascending distance.                                    *)
(***************************************************************************)
Rankings(coll) ==
    LET n == Cardinality(coll)
    IN  { [i \in 1..n |-> [rec |-> p[i], distance |-> d[i], rank |-> i]] :
            p \in { f \in [1..n -> coll] :
                        \A i, k \in 1..n : i # k => f[i] # f[k] },
            d \in { g \in [1..n -> Distances] :
                        \A i \in 1..n : i < n => g[i] <= g[i + 1] } }

\* the answer to query(n_results = n, where = {"filename": filename}), the
\* filter left out when filename is NoName
Query(ranking, n, filename) ==
    LET matching == IF filename = NoName THEN ranking
                    ELSE SelectSeq(ranking,
                                   LAMBDA h : h.rec.filename = filename)
    IN  SubSeq(matching, 1, Min(n, Len(matching)))

\* mutant: the distance is not converted
SimilarityIsDistance(distance) == Round3(distance)

\* "similarity = 1 - distance" and "round(similarity, 3)"
Similarity(distance) == Round3(One - distance)

\* a metadata dict without entries
EmptyDict == [key \in {} |-> ""]

\* dict.get(key, default)
Get(dict, key, default) == IF key \in DOMAIN dict THEN dict[key] ELSE default

\* "results[key][0] if results.get(key) else []"
FirstRow(rows) == IF Len(rows) > 0 THEN rows[1] ELSE <<>>

\* _format_search_results on a query answer: its documents, metadatas and
\* distances are lists of rows, one row per query vector; None and {} are
\* the answer without rows
FormatResults(results) ==
    LET documents == FirstRow(results.documents)
        metadatas == FirstRow(results.metadatas)
        distances == FirstRow(results.distances)
    IN  [i \in 1..Len(documents) |->
            LET metadata == IF i <= Len(metadatas) THEN metadatas[i]
                            ELSE EmptyDict
                distance == IF i <= Len(distances) THEN distances[i] ELSE One
            IN  [content |-> documents[i],
                 filename |-> Get(metadata, "filename", "unknown"),
                 file_type |-> Get(metadata, "file_type", "unknown"),
                 chunk_index |-> Get(metadata, "chunk_index", 0),
                 similarity_score |-> Similarity(distance),
                 metadata |-> metadata]]

\* the answer of collection.query that holds hits: one row
AnswerOf(hits) ==
    [documents |-> <<[i \in 1..Len(hits) |-> hits[i].rec.document]>>,
     metadatas |-> <<[i \in 1..Len(hits) |->
                        [filename |-> hits[i].rec.filename,
                         chunk_index |-> hits[i].rec.chunk_index,
                         total_chunks |-> hits[i].rec.total_chunks]]>>,
     distances |-> <<[i \in 1..Len(hits) |-> hits[i].distance]>>]

\* one entry per returned document, in the order of the answer; rank is
\* the position of the record in the store's ranking (history, not a key
\* of the dict)
_format_search_results(hits) ==
    LET formatted == FormatResults(AnswerOf(hits))
    IN  [i \in 1..Len(hits) |->
            [content |-> formatted[i].content,
             filename |-> formatted[i].filename,
             chunk_index |-> formatted[i].chunk_index,
             similarity_score |-> formatted[i].similarity_score,
             rank |-> hits[i].rank]]

(***************************************************************************)
(* The outcome of a call, and what the call did on its way: whether the    *)
(* embedding service was called and what it answered, whether the store    *)
(* was queried and what it returned (window, out of ranking), whether the  *)
(* answer was composed by _generate_contextual_response.                   *)
(***************************************************************************)
Outcome(success, error, message, results) ==
    [success |-> success, error |-> error, message |-> message,
     results |-> results, total_found |-> Len(results)]

Failure(error) == Outcome(FALSE, error, "", <<>>)

Done(out, embedded, queried, window, composed) ==
    [out |-> out, embedded |-> embedded, queried |-> queried,
     window |-> window, composed |-> composed]

\* what the calling thread holds and the collaborators answer to one call
SearchAnswers ==
    [context : Contexts, count_throws : BOOLEAN, embed_ok : BOOLEAN,
     query_throws : BOOLEAN]

\* _generate_embedding: the vector, or [] when the service fails
_generate_embedding(a) == IF a.embed_ok THEN "ok" ELSE "failed"

\* mutant: the store takes an empty query vector without complaint
QueryThrowsOnRequest(a, n) == a.query_throws \/ n < 1

\* collection.query raises for n_results < 1 and for an empty query vector
QueryThrows(a, n) == a.query_throws \/ n < 1 \/ ~a.embed_ok

\* "if result['similarity_score'] >= min_similarity"
Keeps(result, min_similarity) == result.similarity_score >= min_similarity

\* mutant: the empty store is not checked for
PrecheckNoCount(collection, coll, a) ==
    IF ~has_permission(a.context, "UseAgent")
    THEN "You do not have permissions to use the agent"
    ELSE IF ~collection THEN "Vectorized database not available"
    ELSE IF a.count_throws THEN "Error accessing vectorized database"
    ELSE ""

\* lines 145-179: the error the call ends with before it embeds the query,
\* "" if it goes on
Precheck(collection, coll, a) ==
    IF ~has_permission(a.context, "UseAgent")
    THEN "You do not have permissions to use the agent"
    ELSE IF ~collection THEN "Vectorized database not available"
    ELSE IF a.count_throws THEN "Error accessing vectorized database"
    ELSE IF Cardinality(coll) = 0
    THEN "No documents found in vectorized database"
    ELSE ""

\* mutant: the whole ranking is fetched and only filtered
TopWindowAll(ranking, max_results) == Query(ranking, Len(ranking), NoName)

\* lines 191-195: query(n_results = max_results)
TopWindow(ranking, max_results) == Query(ranking, max_results, NoName)

search_instructive_information(collection, coll, a, ranking, max_results, min_similarity) ==
    LET early == Precheck(collection, coll, a)
        hits == TopWindow(ranking, max_results)
        formatted_results == _format_search_results(hits)
        filtered_results ==
            SelectSeq(formatted_results,
                      LAMBDA result : Keeps(result, min_similarity))
    IN  IF early # ""
        THEN Done(Failure(early), "none", FALSE, <<>>, FALSE)
        ELSE IF _generate_embedding(a) = "failed"
        THEN Done(Failure("Could not generate embedding for the query"),
                  "failed", FALSE, <<>>, FALSE)
        ELSE IF QueryThrows(a, max_results)
        THEN Done(Failure("Error searching instructional documents"),
                  "ok", TRUE, <<>>, FALSE)
        ELSE IF Len(filtered_results) = 0
        THEN Done(Outcome(TRUE, "", "No relevant information found", <<>>),
                  "ok", TRUE, hits, FALSE)
        ELSE Done(Outcome(TRUE, "", "", filtered_results),
                  "ok", TRUE, hits, TRUE)

\* the files of the returned metadatas, each once, in the order met, with
\* the number of its chunks among them
RECURSIVE FilesInfo(_, _)
FilesInfo(hits, seen) ==
    IF hits = <<>> THEN <<>>
    ELSE LET filename == Head(hits).rec.filename
         IN  IF filename \in seen THEN FilesInfo(Tail(hits), seen)
             ELSE <<[filename |-> filename,
                     chunks_count |->
                         Len(SelectSeq(hits,
                             LAMBDA h : h.rec.filename = filename))]>>
                  \o FilesInfo(Tail(hits), seen \cup {filename})

\* no permission check; a failed embedding goes into the query as []
get_available_instructives(collection, coll, a, ranking) ==
    LET hits == Query(ranking, AVAILABLE_N_RESULTS, NoName)
        embedded == _generate_embedding(a)
    IN  IF ~collection
        THEN Done(Outcome(TRUE, "", "Vectorized database not available",
                          <<>>), "none", FALSE, <<>>, FALSE)
        ELSE IF a.count_throws
        THEN Done(Outcome(TRUE, "", "Error accessing database", <<>>),
                  "none", FALSE, <<>>, FALSE)
        ELSE IF Cardinality(coll) = 0
        THEN Done(Outcome(TRUE, "", "No documents in vectorized database",
                          <<>>), "none", FALSE, <<>>, FALSE)
        ELSE IF QueryThrows(a, AVAILABLE_N_RESULTS)
        THEN Done(Failure("Error getting list of instructional documents"),
                  embedded, TRUE, <<>>, FALSE)
        ELSE IF Len(hits) = 0
        THEN Done(Outcome(TRUE, "",
                          "No vectorized instructional documents available",
                          <<>>), embedded, TRUE, hits, FALSE)
        ELSE Done(Outcome(TRUE, "", "Found available instructional documents",
                          FilesInfo(hits, {})), embedded, TRUE, hits, FALSE)

\* no permission check and no test of the collection: with collection
\* None the query raises AttributeError, caught like any other error
search_by_filename(collection, coll, a, ranking, filename) ==
    LET hits == Query(ranking, FILENAME_N_RESULTS, filename)
        formatted_results == _format_search_results(hits)
    IN  IF _generate_embedding(a) = "failed"
        THEN Done(Failure("Could not generate embedding for the query"),
                  "failed", FALSE, <<>>, FALSE)
        ELSE IF ~collection
        THEN Done(Failure("Error searching in specific file"),
                  "ok", FALSE, <<>>, FALSE)
        ELSE IF QueryThrows(a, FILENAME_N_RESULTS)
        THEN Done(Failure("Error searching in specific file"),
                  "ok", TRUE, <<>>, FALSE)
        ELSE IF Len(formatted_results) = 0
        THEN Done(Outcome(TRUE, "", "File not found", <<>>),
                  "ok", TRUE, hits, FALSE)
        ELSE Done(Outcome(TRUE, "", "", formatted_results),
                  "ok", TRUE, hits, FALSE)

(***************************************************************************)
(* Actions of the search object.  Its methods are synchronous: a call is   *)
(* one step, and the next call begins when the caller has the result.  sr  *)
(* keeps the arguments of the call, the ranking the store made if it was   *)
(* queried, and what Done records.                                         *)
(***************************************************************************)
\* the object between two calls
Ready(collection) ==
    [built |-> TRUE, collection |-> collection, op |-> "",
     max_results |-> 0, min_similarity |-> 0,
     filename |-> NoName, ranking |-> <<>>, context |-> NoContext,
     out |-> Failure(""), embedded |-> "none",
     queried |-> FALSE, window |-> <<>>, composed |-> FALSE]

Called(op, max_results, min_similarity, filename, ranking, d) ==
    [built |-> TRUE, collection |-> sr.collection, op |-> op,
     max_results |-> max_results, min_similarity |-> min_similarity,
     filename |-> filename, context |-> NoContext,
     ranking |-> IF d.queried THEN ranking ELSE <<>>,
     out |-> d.out, embedded |-> d.embedded, queried |-> d.queried,
     window |-> d.window, composed |-> d.composed]

\* the records of the collection the search tools hold: the manager's, if
\* it is the same collection of the same client, else those of a collection
\* no ingestion writes
SearchedStore ==
    IF vm.built /\ vm.collection = CollectionOf(ToolsClient, "medical_documents")
    THEN store
    ELSE {}

\* __init__, lines 27-60: RuntimeError if the client cannot be had, else the
\* object, its collection None if it cannot be had
SearchToolsInit ==
    /\ ~sr.built
    /\ \E a \in InitAnswers :
          IF a.client_fails
          THEN sr' = sr
          ELSE sr' = Ready(ToolsCollection(a) # NoCollection)
    /\ UNCHANGED <<vm, th, fm>>
    /\ UNCHANGED <<chunk_size, chunk_overlap, store, log, pc, fr, gh, runs,
                   ck>>

SearchInstructive ==
    /\ sr.built /\ sr.op = ""
    /\ \E a \in SearchAnswers, ranking \in Rankings(SearchedStore),
          max_results \in MaxResultsArgs,
          min_similarity \in MinSimilarities :
          sr' = [Called("search_instructive_information", max_results,
                        min_similarity, NoName, ranking,
                        search_instructive_information(
                            sr.collection, SearchedStore, a, ranking,
                            max_results, min_similarity))
                 EXCEPT !.context = a.context]
    /\ UNCHANGED <<vm, th, fm>>
    /\ UNCHANGED <<chunk_size, chunk_overlap, store, log, pc, fr, gh, runs,
                   ck>>

GetAvailable ==
    /\ sr.built /\ sr.op = ""
    /\ \E a \in SearchAnswers, ranking \in Rankings(SearchedStore) :
          sr' = Called("get_available_instructives", 0, 0, NoName, ranking,
                       get_available_instructives(sr.collection, SearchedStore,
                                                  a, ranking))
    /\ UNCHANGED <<vm, th, fm>>
    /\ UNCHANGED <<chunk_size, chunk_overlap, store, log, pc, fr, gh, runs,
                   ck>>

SearchByFilename ==
    /\ sr.built /\ sr.op = ""
    /\ \E a \in SearchAnswers, ranking \in Rankings(SearchedStore),
          filename \in Names \cup {Removed} :
          sr' = Called("search_by_filename", 0, 0, filename, ranking,
                       search_by_filename(sr.collection, SearchedStore, a,
                                          ranking, filename))
    /\ UNCHANGED <<vm, th, fm>>
    /\ UNCHANGED <<chunk_size, chunk_overlap, store, log, pc, fr, gh, runs,
                   ck>>

\* the caller has the result
SearchReturn ==
    /\ sr.built /\ sr.op # ""
    /\ sr' = Ready(sr.collection)
    /\ UNCHANGED <<vm, th, fm>>
    /\ UNCHANGED <<chunk_size, chunk_overlap, store, log, pc, fr, gh, runs,
                   ck>>

NextSearch ==
    \/ SearchToolsInit
    \/ SearchInstructive
    \/ GetAvailable
    \/ SearchByFilename
    \/ SearchReturn

SpecSearch == Init /\ [][NextSearch]_vars

(***************************************************************************)
(* _format_search_results on its own: any answer of up to MaxRow documents *)
(* in its first row, with metadatas and distances for all, some or none of *)
(* them, and possibly a second row.                                        *)
(***************************************************************************)
Documents == {<<1>>, <<1, 2>>}

Metadatas ==
    {EmptyDict,
     [filename |-> AllNames[1], file_type |-> "txt", chunk_index |-> 1]}

Rows(S) == UNION { [1..n -> S] : n \in 0..MaxRow }

Answers ==
    [documents : {<<>>} \cup { <<r>> : r \in Rows(Documents) }
                        \cup { <<r, r>> : r \in Rows(Documents) },
     metadatas : {<<>>} \cup { <<r>> : r \in Rows(Metadatas) },
     distances : {<<>>} \cup { <<r>> : r \in Rows(Distances) }]

FormatSearchResults ==
    /\ ~fm.called
    /\ \E results \in Answers :
          fm' = [called |-> TRUE, results |-> results,
                 formatted |-> FormatResults(results)]
    /\ UNCHANGED <<chunk_size, chunk_overlap, store, log, pc, fr, gh, runs,
                   ck, sr, vm, th>>

\* the caller has the list
FormatReturn ==
    /\ fm.called
    /\ fm' = NoFormat
    /\ UNCHANGED <<chunk_size, chunk_overlap, store, log, pc, fr, gh, runs,
                   ck, sr, vm, th>>

NextFormat == FormatSearchResults \/ FormatReturn

SpecFormat == Init /\ [][NextFormat]_vars

(***************************************************************************)
(* A deployment: the service starts in some environment with empty         *)
(* collections, constructs the manager and the search tools, ingests a     *)
(* document with vectorize_file and searches.                              *)
(***************************************************************************)
InitDeploy ==
    /\ \E a \in CtorArgs :
          /\ chunk_size = OrDefault(a[1], CHUNK_SIZE)
          /\ chunk_overlap = OrDefault(a[2], CHUNK_OVERLAP)
    /\ store = {} /\ log = {}
    /\ runs = [j \in Calls |-> 0]
    /\ ck = NoChunking
    /\ sr = NoSearch
    /\ \E env \in Environments : vm = NoManager(env)
    /\ th = [t \in Threads |-> NoThread]
    /\ fm = NoFormat
    /\ pc = [j \in Calls |-> "idle"]
    /\ fr = [j \in Calls |-> Frame0]
    /\ gh = [j \in Calls |-> Ghost0]

VectorizationManagerInit ==
    /\ ~vm.built /\ ~vm.failed
    /\ \E a \in InitAnswers : vm' = ManagerInit(vm.env, a)
    /\ UNCHANGED <<chunk_size, chunk_overlap, store, log, pc, fr, gh, runs,
                   ck, sr, th, fm>>

NextDeploy ==
    \/ VectorizationManagerInit
    \/ SearchToolsInit
    \/ vm.built /\ vectorize_file(1)
    \/ DownloadReturns(1, FairWeather)
    \/ EmbedReturns(1, FairWeather)
    \/ Return(1)
    \/ SearchInstructive
    \/ SearchReturn

SpecDeploy == InitDeploy /\ [][NextDeploy]_vars

(***************************************************************************)
(* MedicalQueryAgent.query and the permission context.  The method has no  *)
(* await: it runs from its first line to its return on the calling         *)
(* thread.  The agent may call the search tool while agent_executor.invoke *)
(* runs.  The caller's user_permissions are a list or None (both empty     *)
(* here) and its username is given or not.                                 *)
(***************************************************************************)
QueryInputs ==
    [initialized : BOOLEAN, user_permissions : SUBSET Permissions,
     named : BOOLEAN, calls_tool : BOOLEAN, invoke_raises : BOOLEAN]

\* PermissionContextService.clear_context
clear_context(context) == NoContext

\* lines 147-148: the context the tools see while the agent runs
ContextInside(context, q) ==
    IF q.named /\ q.user_permissions # {}
    THEN UserContext(q.user_permissions)
    ELSE context

\* the permission check of a tool called while the agent runs
ToolDuring(context, q) ==
    IF ~q.calls_tool THEN ""
    ELSE IF has_permission(ContextInside(context, q), "UseAgent") THEN "served"
    ELSE "denied"

\* mutant: the context is cleared at the end of the try block, not in a
\* finally
queryClearsAtEnd(context, q) ==
    IF ~q.initialized
    THEN [out |-> "error", during |-> "", context |-> context]
    ELSE IF "UseAgent" \notin q.user_permissions
    THEN [out |-> "denied", during |-> "", context |-> context]
    ELSE IF q.invoke_raises
    THEN [out |-> "error", during |-> ToolDuring(context, q),
          context |-> ContextInside(context, q)]
    ELSE [out |-> "success", during |-> ToolDuring(context, q),
          context |-> clear_context(ContextInside(context, q))]

\* MedicalQueryAgent.query: the result, what a tool called meanwhile met,
\* and the context the thread is left with
query(context, q) ==
    IF ~q.initialized
    THEN [out |-> "error", during |-> "", context |-> clear_context(context)]
    ELSE IF "UseAgent" \notin q.user_permissions
    THEN [out |-> "denied", during |-> "", context |-> clear_context(context)]
    ELSE IF q.invoke_raises
    THEN [out |-> "error", during |-> ToolDuring(context, q),
          context |-> clear_context(ContextInside(context, q))]
    ELSE [out |-> "success", during |-> ToolDuring(context, q),
          context |-> clear_context(ContextInside(context, q))]

\* PermissionContextService.set_user_context, called on thread t
set_user_context(t) ==
    /\ \E P \in SUBSET Permissions :
          th' = [th EXCEPT ![t] = [NoThread EXCEPT !.context = UserContext(P)]]
    /\ UNCHANGED <<chunk_size, chunk_overlap, store, log, pc, fr, gh, runs,
                   ck, sr, vm, fm>>

\* a request: MedicalQueryAgent.query runs on thread t
MedicalAgentQuery(t) ==
    /\ \E q \in QueryInputs :
          LET r == query(th[t].context, q)
          IN  th' = [th EXCEPT ![t] =
                        [context |-> r.context, returned |-> TRUE,
                         out |-> r.out, during |-> r.during, tool |-> ""]]
    /\ UNCHANGED <<chunk_size, chunk_overlap, store, log, pc, fr, gh, runs,
                   ck, sr, vm, fm>>

\* the tool search_instructive_info is called on thread t outside a request:
\* the check search_instructive_information begins with
search_instructive_info(t) ==
    /\ sr.built
    /\ \E a \in SearchAnswers :
          /\ a.context = th[t].context
          /\ LET e == Precheck(sr.collection, SearchedStore, a)
             IN  th' = [th EXCEPT ![t].tool = IF e = "" THEN "passed" ELSE e]
    /\ UNCHANGED <<chunk_size, chunk_overlap, store, log, pc, fr, gh, runs,
                   ck, sr, vm, fm>>

NextAgent ==
    \/ SearchToolsInit
    \/ \E t \in Threads :
          \/ set_user_context(t)
          \/ MedicalAgentQuery(t)
          \/ search_instructive_info(t)

SpecAgent == Init /\ [][NextAgent]_vars

(***************************************************************************)
(* Vocabulary of the properties.                                           *)
(***************************************************************************)
\* call j is a revectorize_all run that has returned its report
Completed(j) ==
    pc[j] = "done" /\ fr[j].mode = "bulk" /\ fr[j].result.status = "completed"

\* call j is a revectorize_all run that found the listing empty
FoundNothing(j) ==
    pc[j] = "done" /\ fr[j].mode = "bulk" /\ fr[j].result.status = "success"

\* call j is a revectorize_all run whose enumeration failed
ListingFailed(j) ==
    pc[j] = "done" /\ fr[j].mode = "bulk" /\ fr[j].result.status = "raised"

NamesIn(entries) == { entries[i].name : i \in 1..Len(entries) }

Listed(j) == { fr[j].blobs[i] : i \in 1..Len(fr[j].blobs) }

RECURSIVE SumChunks(_)
SumChunks(entries) ==
    IF entries = <<>> THEN 0
    ELSE Head(entries).chunks + SumChunks(Tail(entries))

\* a vectorize_file call of call j has ended, and it failed
FileFailed(j) == gh[j].vf.name # NoName /\ ~gh[j].vf.ok

EarlyStages == {"fetch", "extract", "chunk", "embed"}

\* the class of an error: its type, its status and the head of its message
ErrorClass(e) == <<e.type, e.status_code, Head(e.detail)>>

Mentions(e, fragment) == \E i \in 1..Len(e.detail) : e.detail[i] = fragment

\* a collection after the clear of call j: empty, or untouched if it threw
ClearedOrKept(coll, threw, emptied) == coll = {} \/ (threw /\ ~emptied)

(***************************************************************************)
(* C1.  Partial-failure isolation: a run over N documents of which exactly *)
(* one fails reports N-1 processed and 1 failed, and the store then holds  *)
(* records of the processed documents only, none of the failed document.   *)
(***************************************************************************)
C1_PartialFailureIsolation ==
    \A j \in Calls :
        (Completed(j) /\ fr[j].result.files_failed = 1)
        => /\ fr[j].result.files_processed = Len(fr[j].blobs) - 1
           /\ \A r \in store :
                 /\ r.filename \in NamesIn(fr[j].result.processed_files)
                 /\ r.filename \notin NamesIn(fr[j].result.failed_files)

(***************************************************************************)
(* C2.  Destructive rebuild: when revectorize_all has returned a report,   *)
(* every record of the store belongs to a document of the listing the run  *)
(* got, whatever the clear calls did.                                      *)
(***************************************************************************)
C2_DestructiveRebuild ==
    \A j \in Calls :
        (Completed(j) \/ FoundNothing(j))
        => \A r \in store : r.filename \in Listed(j)

(***************************************************************************)
(* C3.  A failure never stops the bulk job: in a run over a non-empty      *)
(* listing every listed document is attempted exactly once, in order, and  *)
(* ends in exactly one of processed_files and failed_files, so that        *)
(* files_processed + files_failed is the number of listed documents.       *)
(***************************************************************************)
C3_EveryDocumentAttempted ==
    \A j \in Calls :
        Completed(j)
        => LET res == fr[j].result
           IN  /\ gh[j].attempted = fr[j].blobs
               /\ NamesIn(res.processed_files) \cup NamesIn(res.failed_files)
                      = Listed(j)
               /\ NamesIn(res.processed_files) \cap NamesIn(res.failed_files)
                      = {}
               /\ res.files_processed = Len(res.processed_files)
               /\ res.files_failed = Len(res.failed_files)
               /\ res.files_processed + res.files_failed = Len(fr[j].blobs)

\* the first of two documents failed and the second was processed
C3_Witness ==
    \E j \in Calls :
        /\ Completed(j)
        /\ Len(fr[j].blobs) = 2
        /\ NamesIn(fr[j].result.failed_files) = {fr[j].blobs[1]}
        /\ NamesIn(fr[j].result.processed_files) = {fr[j].blobs[2]}

(***************************************************************************)
(* C4.  total_chunks of the report is the number of records the run added  *)
(* to the store, and is the sum of the chunk counts in processed_files.    *)
(***************************************************************************)
C4_TotalChunks ==
    \A j \in Calls :
        Completed(j)
        => /\ fr[j].result.total_chunks = gh[j].nadded
           /\ fr[j].result.total_chunks
                  = SumChunks(fr[j].result.processed_files)

(***************************************************************************)
(* C5.  As claimed: a run that finds the listing empty is a successful     *)
(* no-op, with zero processed, failed and chunks, no error, and the store  *)
(* and the log exactly as they were before the call.                       *)
(***************************************************************************)
C5_EmptyListingLeavesStore ==
    \A j \in Calls :
        FoundNothing(j)
        => /\ fr[j].result.files_processed = 0
           /\ fr[j].result.files_failed = 0
           /\ fr[j].result.total_chunks = 0
           /\ fr[j].result.error = NoError
           /\ ~gh[j].emptied
           /\ ~gh[j].log_emptied

(***************************************************************************)
(* C5, amended.  A run that finds the listing empty returns success with   *)
(* zero processed, failed and chunks and no error, and adds no record;     *)
(* but the store and the log were cleared before the listing was asked     *)
(* for: each is empty, or untouched if its clear call threw.               *)
(***************************************************************************)
C5_EmptyListingAfterClear ==
    \A j \in Calls :
        FoundNothing(j)
        => /\ fr[j].result.files_processed = 0
           /\ fr[j].result.files_failed = 0
           /\ fr[j].result.total_chunks = 0
           /\ fr[j].result.error = NoError
           /\ gh[j].nadded = 0
           /\ gh[j].attempted = <<>>
           /\ ClearedOrKept(store, gh[j].clear_failed, gh[j].emptied)
           /\ ClearedOrKept(log, gh[j].log_clear_failed, gh[j].log_emptied)

\* the listing was empty and the run has deleted the records it found
C5_Witness ==
    \E j \in Calls :
        /\ FoundNothing(j)
        /\ gh[j].emptied /\ gh[j].log_emptied
        /\ store = {} /\ log = {}

(***************************************************************************)
(* C6.  As claimed: the enumeration completes before the store and the log *)
(* are cleared, so nothing is cleared while the listing is awaited, and a  *)
(* run whose enumeration fails leaves the store and the log unchanged.     *)
(***************************************************************************)
C6_ListBeforeClear ==
    \A j \in Calls :
        (pc[j] = "listing" \/ ListingFailed(j))
        => ~gh[j].emptied /\ ~gh[j].log_emptied

(***************************************************************************)
(* C6, amended.  Both clear calls are made before the listing is asked     *)
(* for: while the listing is awaited, and when the enumeration has failed  *)
(* (the run then raises a 500 without having attempted a document), each   *)
(* collection is empty, or untouched if its clear call threw.              *)
(***************************************************************************)
C6_ClearBeforeList ==
    \A j \in Calls :
        (pc[j] = "listing" \/ ListingFailed(j))
        => /\ ClearedOrKept(store, gh[j].clear_failed, gh[j].emptied)
           /\ ClearedOrKept(log, gh[j].log_clear_failed, gh[j].log_emptied)
           /\ gh[j].attempted = <<>>
           /\ gh[j].nadded = 0
           /\ ListingFailed(j)
                  => ErrorClass(fr[j].result.error)
                         = <<"HTTPException", "500",
                             "Error during revectorization">>

\* the enumeration failed after the records of the store had been deleted
C6_Witness ==
    \E j \in Calls :
        /\ ListingFailed(j)
        /\ gh[j].emptied
        /\ store = {}

(***************************************************************************)
(* C7.  Bulk jobs are serialized: the clear of one revectorize_all call    *)
(* never runs between the first add of another call and that call's end.   *)
(***************************************************************************)
C7_BulkJobsSerialized ==
    [][ \A j \in Calls, k \in Calls :
            (j # k /\ pc[j] = "idle" /\ pc'[j] = "listing")
            => ~(fr[j]'.mode = "bulk" /\ fr[k].mode = "bulk"
                    /\ gh[k].nadded > 0 /\ pc[k] \in {"download", "embed"})
      ]_vars

(***************************************************************************)
(* C8.  vectorize_file runs fetch, extract, chunk, embed, store, log in    *)
(* this order and no stage after a failed one; a call that fails in fetch  *)
(* (an empty download included), extract, chunk or embed ends with an      *)
(* error and has changed neither the store nor the log.                    *)
(***************************************************************************)
C8_PipelineOrder ==
    \A j \in Calls :
        gh[j].vf.name # NoName
        => LET vf == gh[j].vf
           IN  /\ gh[j].vfstages = StagesFrom("fetch", vf.stage)
               /\ vf.ok => vf.stage = "log"
               /\ vf.cause = ValueError(<<"No content retrieved for file">>)
                      => vf.stage = "fetch"
               /\ (~vf.ok /\ vf.stage \in EarlyStages)
                      => /\ ~gh[j].vftouched
                         /\ ErrorClass(vf.error)
                                = <<"HTTPException", "500",
                                    "Error vectorizing file">>

\* an empty download failed the call and left a non-empty store alone
C8_Witness ==
    \E j \in Calls :
        /\ FileFailed(j)
        /\ gh[j].vf.cause = ValueError(<<"No content retrieved for file">>)
        /\ gh[j].vfstages = <<"fetch">>
        /\ store # {}

(***************************************************************************)
(* C9.  A document of no supported format fails with an error whose class  *)
(* is that of an unsupported format, not the class of a failed extraction  *)
(* of a supported format, in what _extract_text_from_file raises and in    *)
(* what vectorize_file and revectorize_all report.                         *)
(***************************************************************************)
UnsupportedText == "File type is not supported"

\* what a PDF that cannot be parsed makes _extract_text_from_file raise
ExtractionFailure ==
    ExtractWrap([ok |-> FALSE, text |-> <<>>,
                 error |-> HTTPException("422",
                               <<"Error extracting content", "pdf">>)]).error

C9_UnsupportedClassified ==
    \A j \in Calls :
        (FileFailed(j) /\ Mentions(gh[j].vf.cause, UnsupportedText))
        => /\ ErrorClass(gh[j].vf.cause) # ErrorClass(ExtractionFailure)
           /\ ErrorClass(gh[j].vf.error)
                  # ErrorClass(VectorizeRaise(ExtractionFailure))

(***************************************************************************)
(* C10.  When the embedding service answers with a number of vectors that  *)
(* is not the number of chunks (none included), vectorize_file fails and   *)
(* adds no record to the store.                                            *)
(***************************************************************************)
C10_EmbeddingCountMismatch ==
    \A j \in Calls :
        (gh[j].vf.name # NoName /\ gh[j].vf.nchunks > 0
            /\ gh[j].vf.nvec # gh[j].vf.nchunks)
        => /\ ~gh[j].vf.ok
           /\ gh[j].vf.stage = "embed"
           /\ ~gh[j].vftouched

\* one vector came back for two chunks
C10_Witness ==
    \E j \in Calls :
        /\ FileFailed(j)
        /\ gh[j].vf.nchunks = 2 /\ gh[j].vf.nvec = 1
        /\ gh[j].vf.cause = ValueError(<<"Embedding generation failed">>)

(***************************************************************************)
(* Vocabulary of the ingestion log.                                        *)
(***************************************************************************)
\* the log entries of a document
EntriesOf(blob_name) == { e \in log : e.blob_name = blob_name }

\* the last vectorize_file call of call j returned success
FileSucceeded(j) == gh[j].vf.name # NoName /\ gh[j].vf.ok

(***************************************************************************)
(* C11.  Log upsert: the log never holds more than one entry for one       *)
(* document, and after a successful ingestion of a document its entry is   *)
(* the one that ingestion wrote (it carries that run's chunk count).       *)
(***************************************************************************)
C11_LogUpsert ==
    /\ \A d \in Names \cup {Removed} : Cardinality(EntriesOf(d)) <= 1
    /\ \A j \in Calls :
           FileSucceeded(j)
           => \A e \in EntriesOf(gh[j].vf.name) :
                  e.chunks_processed = gh[j].vf.chunks_processed

(***************************************************************************)
(* C12.  Success means Logged: when vectorize_file has returned success    *)
(* for a document, the log holds an entry for it whose chunk count is the  *)
(* number of records the run put into the store.                           *)
(***************************************************************************)
C12_SuccessIsLogged ==
    \A j \in Calls :
        FileSucceeded(j)
        => \E e \in EntriesOf(gh[j].vf.name) :
               e.chunks_processed = gh[j].vfadded

(***************************************************************************)
(* C20.  As claimed: with chunk size 5 and overlap 2, a text of 10         *)
(* distinct words gives exactly 2 chunks, the windows at word offsets 0    *)
(* and 3.                                                                  *)
(***************************************************************************)
\* _chunk_text was called on 10 distinct words with size 5 and overlap 2
TenWordsFiveTwo ==
    /\ ck.called /\ ck.text = Words(10)
    /\ chunk_size = 5 /\ chunk_overlap = 2

\* the words of text from offset first (counted from 0) through offset last
Window(text, first, last) == SubSeq(text, first + 1, last + 1)

C20_TwoChunks ==
    TenWordsFiveTwo
    => ck.chunks = <<Window(ck.text, 0, 4), Window(ck.text, 3, 7)>>

(***************************************************************************)
(* C20, amended.  With chunk size 5 and overlap 2, a text of 10 distinct   *)
(* words gives exactly 4 chunks, the windows at word offsets 0, 3, 6 and   *)
(* 9 (step 3): words 0-4, 3-7, 6-9 and 9.  The second shares words 3 and   *)
(* 4 with the first; the last two are cut short by the end of the text.    *)
(***************************************************************************)
C20_FourChunks ==
    TenWordsFiveTwo
    => /\ ck.ok
       /\ ck.chunks = <<Window(ck.text, 0, 4), Window(ck.text, 3, 7),
                        Window(ck.text, 6, 9), Window(ck.text, 9, 9)>>

\* the 10-word text has been chunked with size 5 and overlap 2
C20_Witness == TenWordsFiveTwo /\ Len(ck.chunks) = 4

(***************************************************************************)
(* Vocabulary of the search properties.                                    *)
(***************************************************************************)
Searched == sr.built /\ sr.op = "search_instructive_information"

\* the ranks of the returned results
Ranks(results) == { results[i].rank : i \in 1..Len(results) }

\* the similarity of a hit as the claims mean it: 1 - distance
RawSimilarity(h) == One - h.distance

\* search_instructive_information found the store empty: it was allowed,
\* it had a collection, and count() returned 0
FoundStoreEmpty ==
    /\ Searched /\ store = {}
    /\ sr.out.error \notin {"You do not have permissions to use the agent",
                             "Vectorized database not available",
                             "Error accessing vectorized database"}

Answered ==
    /\ sr.built /\ sr.out.success
    /\ sr.op \in {"search_instructive_information", "search_by_filename"}

\* the hits of the window
HitsOf(hits) == { hits[i] : i \in 1..Len(hits) }

(***************************************************************************)
(* C14.  Threshold filter: a record of the top max_results window is       *)
(* returned if and only if its similarity, 1 - distance, is not below      *)
(* min_similarity.                                                         *)
(***************************************************************************)
C14_ThresholdFilter ==
    (Searched /\ sr.out.success)
    => \A h \in HitsOf(sr.window) :
           (h.rank \in Ranks(sr.out.results))
               <=> (RawSimilarity(h) >= sr.min_similarity)

(***************************************************************************)
(* C15.  The filter comes after ranking and truncation: the results are    *)
(* among the max_results nearest records, in their order, there are never  *)
(* more than max_results of them, and a record ranked outside the window   *)
(* is not returned, whatever its similarity.                               *)
(***************************************************************************)
C15_FilterAfterTruncation ==
    (Searched /\ sr.out.success)
    => /\ Len(sr.out.results) <= sr.max_results
       /\ sr.out.total_found = Len(sr.out.results)
       /\ Ranks(sr.out.results) \subseteq 1..sr.max_results
       /\ \A i \in 1..Len(sr.ranking) :
              i > sr.max_results => i \notin Ranks(sr.out.results)

\* a record outside the window meets min_similarity and is not returned
C15_Witness ==
    /\ Searched /\ sr.out.success
    /\ \E i \in 1..Len(sr.ranking) :
           /\ i > sr.max_results
           /\ Similarity(sr.ranking[i].distance) >= sr.min_similarity
           /\ i \notin Ranks(sr.out.results)

(***************************************************************************)
(* C16.  The returned results are in descending order of similarity, and   *)
(* results of equal similarity are in the order the store returned them.   *)
(***************************************************************************)
C16_DescendingOrder ==
    Answered
    => \A i, k \in 1..Len(sr.out.results) :
           i < k => /\ sr.out.results[i].similarity_score
                          >= sr.out.results[k].similarity_score
                    /\ sr.out.results[i].rank < sr.out.results[k].rank

\* three results, the last two of them of equal similarity
C16_Witness ==
    /\ Answered /\ Len(sr.out.results) >= 2
    /\ \E i, k \in 1..Len(sr.out.results) :
           /\ i < k
           /\ sr.out.results[i].similarity_score
                  > sr.out.results[k].similarity_score
    /\ \E i, k \in 1..Len(sr.out.results) :
           /\ i < k
           /\ sr.out.results[i].similarity_score
                  = sr.out.results[k].similarity_score

(***************************************************************************)
(* C17.  Score range: every similarity score a search returns is in        *)
(* [0, 1].                                                                 *)
(***************************************************************************)
C17_ScoreRange ==
    Answered
    => \A i \in 1..Len(sr.out.results) :
           /\ sr.out.results[i].similarity_score >= 0
           /\ sr.out.results[i].similarity_score <= One

(***************************************************************************)
(* C18.  When the store has records and every record of the top window     *)
(* has a similarity, 1 - distance, below min_similarity, the search is a   *)
(* success with no results and the "no relevant information" message, and  *)
(* no answer is composed.                                                  *)
(***************************************************************************)
C18_NothingRelevant ==
    (/\ Searched /\ sr.queried /\ sr.window # <<>>
     /\ \A h \in HitsOf(sr.window) : RawSimilarity(h) < sr.min_similarity)
    => /\ sr.out.success /\ sr.out.error = ""
       /\ sr.out.results = <<>>
       /\ sr.out.message = "No relevant information found"
       /\ ~sr.composed

ValidChunking == ck.called /\ 0 <= chunk_overlap /\ chunk_overlap < chunk_size

\* _chunk_text has been called by a manager whose step is zero or negative
BadStepChunking == ck.called /\ chunk_overlap >= chunk_size

\* word w occurs in chunk
Occurs(w, chunk) == \E p \in 1..Len(chunk) : chunk[p] = w

\* chunk is the run of words of text that starts at position a
RunAt(chunk, text, a) == chunk = SubSeq(text, a, a + Len(chunk) - 1)

\* the position in text of the first word of chunk (the words are distinct)
StartOf(chunk, text) == CHOOSE a \in 1..Len(text) : text[a] = chunk[1]

\* the number of leading words of chunk that end acc
Overlap(acc, chunk) ==
    LET fits(m) == SubSeq(acc, Len(acc) - m + 1, Len(acc)) = SubSeq(chunk, 1, m)
        M == { m \in 0..Min(Len(acc), Len(chunk)) : fits(m) }
    IN  CHOOSE m \in M : \A o \in M : o <= m

\* chunks k.. appended to acc, each without the words it shares with acc
RECURSIVE Stitch(_, _, _)
Stitch(chunks, k, acc) ==
    IF k > Len(chunks)
    THEN acc
    ELSE LET c == chunks[k]
         IN  Stitch(chunks, k + 1,
                    acc \o SubSeq(c, Overlap(acc, c) + 1, Len(c)))

(***************************************************************************)
(* C21.  For every configuration with overlap >= size (a zero or negative  *)
(* step), chunking any text fails with an error and returns no chunks; in  *)
(* particular it does not return the whole text as one chunk.              *)
(***************************************************************************)
C21_BadStepFailsFast ==
    BadStepChunking => ~ck.ok /\ ck.chunks = <<>>

ExplicitConfiguration ==
    /\ ck.size_arg > 0
    /\ 0 <= ck.overlap_arg /\ ck.overlap_arg < ck.size_arg

C28_ExplicitConfigurationUsed ==
    ExplicitConfiguration
    => /\ chunk_size = ck.size_arg
       /\ chunk_overlap = ck.overlap_arg
       /\ ck.called
          => ck.chunks = _chunk_text(ck.text, ck.size_arg, ck.overlap_arg).chunks


(***************************************************************************)
(* C23.  Record-level idempotence: the identity key of a record is the     *)
(* same function of (document identifier, chunk index, chunk text) in      *)
(* every process run, so the Vector Store never holds two records of the   *)
(* same document, chunk index and chunk text: ingesting identical content  *)
(* again, also after a restart, leaves the records of the first ingestion  *)
(* and adds none.                                                          *)
(***************************************************************************)
\* r and s are records of the same chunk of the same document
SameChunk(r, s) ==
    /\ r.filename = s.filename
    /\ r.chunk_index = s.chunk_index
    /\ r.document = s.document

C23_RecordIdempotence ==
    \A r \in store : \A s \in store : SameChunk(r, s) => r.id = s.id


(***************************************************************************)
(* C24.  A failure to initialize the persistent store (client or           *)
(* collection) is fatal at construction: neither VectorizationManager nor  *)
(* InstructiveSearchTools ever ends construction as an object without a    *)
(* collection handle.                                                      *)
(***************************************************************************)
C24_InitFailureIsFatal ==
    /\ vm.built => vm.collection # NoCollection
    /\ sr.built => sr.collection

(***************************************************************************)
(* C29.  Search reads the store that ingestion writes: in every            *)
(* environment (local or Azure, any DEFAULT_COLLECTION_NAME), a search     *)
(* that starts after vectorize_file has returned success does not report   *)
(* an empty store.                                                         *)
(***************************************************************************)
\* a call of search_instructive_information begins and ends in this step
SearchStep == sr.built /\ sr.op = "" /\ sr'.op = "search_instructive_information"

C29_SearchReadsIngestedStore ==
    [][(FileSucceeded(1) /\ SearchStep)
       => sr'.out.error # "No documents found in vectorized database"]_vars


(***************************************************************************)
(* C27.  When the calling thread's permission context is absent or lacks   *)
(* the UseAgent permission, search_instructive_information returns success *)
(* False with the permissions error and an empty result list, whatever the *)
(* store would answer, without calling the embedding service and without   *)
(* querying the store.                                                     *)
(***************************************************************************)
\* search_instructive_information was called without the UseAgent permission
CalledWithoutPermission ==
    /\ sr.built /\ sr.op = "search_instructive_information"
    /\ ~sr.context.set \/ "UseAgent" \notin sr.context.permissions

C27_DeniedWithoutPermission ==
    CalledWithoutPermission
    => /\ ~sr.out.success
       /\ sr.out.error = "You do not have permissions to use the agent"
       /\ sr.out.results = <<>>
       /\ sr.embedded = "none" /\ ~sr.queried /\ ~sr.composed

\* a thread without a context has searched a store that holds records
C27_Witness ==
    /\ CalledWithoutPermission
    /\ sr.context = NoContext
    /\ sr.collection /\ SearchedStore # {}
    /\ ~sr.out.success

(***************************************************************************)
(* C30.  The permission context never outlives the request that set it:    *)
(* after MedicalQueryAgent.query has returned on a thread, on any path     *)
(* (success, access denied or exception), the thread has no user context   *)
(* until set_user_context is called again, and a tool called on it         *)
(* meanwhile is denied.                                                    *)
(***************************************************************************)
C30_ContextEndsWithRequest ==
    \A t \in Threads :
        th[t].returned
        => /\ th[t].context = NoContext
           /\ th[t].tool \in {"", "You do not have permissions to use the agent"}

\* a request whose tool call was served has returned, and a tool called on
\* the same thread afterwards was denied
C30_Witness ==
    \E t \in Threads :
        /\ th[t].returned /\ th[t].out = "success" /\ th[t].during = "served"
        /\ th[t].tool = "You do not have permissions to use the agent"


MetadataOf(results, i) ==
    IF i <= Len(FirstRow(results.metadatas))
    THEN FirstRow(results.metadatas)[i]
    ELSE EmptyDict

\* the distance of document i of the first row, 1.0 if it has none
DistanceOf(results, i) ==
    IF i <= Len(FirstRow(results.distances))
    THEN FirstRow(results.distances)[i]
    ELSE One

\* one result per document of the first row, in order, with its metadata
OnePerDocument ==
    LET documents == FirstRow(fm.results.documents)
    IN  /\ Len(fm.formatted) = Len(documents)
        /\ \A i \in 1..Len(documents) :
              /\ fm.formatted[i].content = documents[i]
              /\ fm.formatted[i].metadata = MetadataOf(fm.results, i)

C26_FormatExact ==
    fm.called
    => /\ OnePerDocument
       /\ \A i \in 1..Len(fm.formatted) :
             fm.formatted[i].similarity_score
                 = One - DistanceOf(fm.results, i)

(***************************************************************************)
(* C26, amended.  _format_search_results returns exactly one result per    *)
(* document of the first result row, in the same order, each with the      *)
(* document's own metadata and similarity_score equal to 1 minus its       *)
(* distance rounded to three decimal places: a multiple of 0.001 that is   *)
(* no further than 0.0005 from 1 minus the distance (a missing distance    *)
(* counts as 1.0 and a missing metadata as empty); an answer with no       *)
(* documents gives the empty list.                                         *)
(***************************************************************************)
C26_FormatRounded ==
    fm.called
    => /\ OnePerDocument
       /\ \A i \in 1..Len(fm.formatted) :
             LET score == fm.formatted[i].similarity_score
                 exact == One - DistanceOf(fm.results, i)
             IN  /\ score % Thousandth = 0
                 /\ 2 * (score - exact) <= Thousandth
                 /\ 2 * (exact - score) <= Thousandth

\* two documents were formatted, the first with a metadata and a distance
\* of 0.1004, the second with neither
C26_Witness ==
    /\ fm.called
    /\ Len(fm.formatted) = 2
    /\ Len(FirstRow(fm.results.metadatas)) = 1
    /\ FirstRow(fm.results.distances) = <<1004>>
    /\ fm.formatted[1].metadata # EmptyDict
    /\ fm.formatted[2].similarity_score = 0

=============================================================================
